---- MODULE Spec2Model ----
(***************************************************************************)
(* The conversation state machine of the image generator: App.tsx          *)
(* (messages / isLoading state, the restore and persist effects,           *)
(* processRequest, handleSubmit, handleRetry, handleEdit), the generation  *)
(* client callGeminiApi and the guards of the components that call them.   *)
(*                                                                         *)
(* React state: `messages` and `isLoading` are the values of the last      *)
(* render, which is what the handlers' closures and the components' props  *)
(* see.  setMessages(updater) calls are queued in `updates` and applied in *)
(* order by the next render; the persist effect runs after every render    *)
(* that changed `messages`.  Updates made in a click handler are rendered  *)
(* at the end of the handler; updates made after an await are rendered by  *)
(* a later task (Render).                                                  *)
(*                                                                         *)
(* ChatInput's attached files (handleFilesChange, removeFile) and the zoom *)
(* of ImageModal (handleWheel) are modelled in sections of their own, with *)
(* the specifications SpecInput and SpecViewer.                            *)
(***************************************************************************)
EXTENDS Integers, Sequences, FiniteSets, TLC

(* ------------------------------ bounds -------------------------------- *)
MaxSubmits == 2
MaxRequests == 2
MaxClock == 4
MaxReloads == 1
MaxEdits == 1

\* Prompts typed into the input and into the edit form.
Prompts == {"a", "b"}
SubmitPrompts == {"a"}

\* Numbers of attached files: none, one (image mode) and two (text mode).
FileCounts == {0, 1, 2}

\* constants.ts: VARIATION_OPTIONS = [1, 2, 4]
VARIATION_OPTIONS == {1, 2, 4}

\* ChatInput's initial options: variations: 1
DefaultVariations == 1

(* ------------------ optional values (undefined / set) ----------------- *)
None == <<>>
Some(x) == <<x>>
IsSome(o) == Len(o) > 0
Get(o) == o[1]

VARIABLES
    messages,       \* useState<ChatMessage[]>: value of the last render
    isLoading,      \* useState(false): value of the last render
    updates,        \* queued setMessages updaters, oldest first
    loadingUpdate,  \* queued setIsLoading value: "none", "true", "false"
    storage,        \* localStorage slot 'chatHistory'
    reqs,           \* every processRequest call so far, by request number
    subs,           \* every handleSubmit call so far: "encoding", "appended",
                    \* "rejected" (its promise rejected) or "lost"
    encoding,       \* the handleSubmit calls waiting at filesToImageFiles
    clock,          \* Date.now() at the latest event
    inputPrompt,    \* ChatInput's useState(''): the text in the input
    mounted,        \* the App component is mounted (its effects have run)
    reloads,        \* page reloads so far
    edits,          \* handleEdit calls so far
    lookupFailed,   \* console.error("Could not find messages to ...") was hit
    revoked,        \* the object URLs passed to URL.revokeObjectURL, in order
    inputFiles,     \* ChatInput's useState<File[]>([]): the attached files
    selections,     \* every FileList handed to handleFilesChange so far
    zoom            \* ImageModal's useState(1), in hundredths; None: no viewer

vars == <<messages, isLoading, updates, loadingUpdate, storage, reqs, subs,
          encoding, clock, inputPrompt, mounted, reloads, edits, lookupFailed,
          revoked, inputFiles, selections, zoom>>

(* --------------------------- types.ts --------------------------------- *)
\* GenerationOptions as ChatInput builds them (aspectRatio and negativePrompt
\* at their defaults).
GenerationOptions(v) ==
    [aspectRatio |-> "1:1", variations |-> v, negativePrompt |-> ""]

\* The fields of a payload that was never set ({...undefined, prompt}).
UndefinedOptions ==
    [aspectRatio |-> "undefined", variations |-> 0, negativePrompt |-> "undefined"]

\* RequestPayload; images is the number of encoded image files.
RequestPayload(prompt, images, options, responseType) ==
    [prompt |-> prompt, images |-> images, options |-> options,
     responseType |-> responseType]

\* ChatMessage with every optional field; ids are the decimal strings of
\* integers, compared with ===, so the integer stands for the string.
ChatMessage(id, role) ==
    [id |-> id, role |-> role, text |-> None, imagePreviewUrls |-> None,
     requestPayload |-> None, generatedImages |-> None, isLoading |-> FALSE,
     error |-> None, userMessageId |-> None]

(* ------------------------ processRequest ------------------------------ *)
\* const botMessageId = existingBotMessageId || (Date.now() + 1).toString()
BotMessageId(existingBotMessageId, now) ==
    IF IsSome(existingBotMessageId) THEN Get(existingBotMessageId) ELSE now + 1

LoadingBotMessage(botMessageId, userMessageId) ==
    [ChatMessage(botMessageId, "bot") EXCEPT
        !.isLoading = TRUE, !.userMessageId = Some(userMessageId)]

SuccessBotMessage(botMessageId, userMessageId, response) ==
    [ChatMessage(botMessageId, "bot") EXCEPT
        !.generatedImages = response.images, !.text = response.text,
        !.userMessageId = Some(userMessageId)]

\* Mutant of ErrorBotMessage: the catch branch leaves the spinner on.
ErrorBotMessageStillLoading(botMessageId, userMessageId, errorMessage) ==
    [ChatMessage(botMessageId, "bot") EXCEPT
        !.isLoading = TRUE, !.error = Some(errorMessage),
        !.userMessageId = Some(userMessageId)]

ErrorBotMessage(botMessageId, userMessageId, errorMessage) ==
    [ChatMessage(botMessageId, "bot") EXCEPT
        !.error = Some(errorMessage), !.userMessageId = Some(userMessageId)]

\* Mutant of LoadingUpdate: the placeholder is appended also on a re-run.
LoadingUpdateAppends(existingBotMessageId, botMessageId, userMessageId) ==
    [kind |-> "append", entry |-> LoadingBotMessage(botMessageId, userMessageId)]

\* The setMessages call that shows the loading placeholder.
LoadingUpdate(existingBotMessageId, botMessageId, userMessageId) ==
    IF IsSome(existingBotMessageId)
    THEN [kind |-> "replace", id |-> Get(existingBotMessageId),
          entry |-> LoadingBotMessage(botMessageId, userMessageId)]
    ELSE [kind |-> "append",
          entry |-> LoadingBotMessage(botMessageId, userMessageId)]

\* The setMessages call of the try / catch branch.
TerminalUpdate(botMessageId, userMessageId, result) ==
    [kind |-> "replace", id |-> botMessageId,
     entry |-> IF result.ok
               THEN SuccessBotMessage(botMessageId, userMessageId, result)
               ELSE ErrorBotMessage(botMessageId, userMessageId, result.error)]

(* ------------------------- setMessages updaters ----------------------- *)
\* { ...msg.requestPayload!, prompt: newPrompt }
WithPrompt(payload, newPrompt) ==
    IF IsSome(payload)
    THEN [Get(payload) EXCEPT !.prompt = newPrompt]
    ELSE RequestPayload(newPrompt, -1, UndefinedOptions, "undefined")

ApplyUpdate(u, prev) ==
    CASE u.kind = "append" -> Append(prev, u.entry)
      [] u.kind = "replace" ->
            [i \in 1..Len(prev) |->
                IF prev[i].id = u.id THEN u.entry ELSE prev[i]]
      [] u.kind = "edit" ->
            [i \in 1..Len(prev) |->
                IF prev[i].id = u.id
                THEN [prev[i] EXCEPT
                        !.text = Some(u.prompt),
                        !.requestPayload =
                            Some(WithPrompt(prev[i].requestPayload, u.prompt))]
                ELSE prev[i]]
      [] u.kind = "set" -> u.value

RECURSIVE ApplyAll(_, _)
ApplyAll(us, prev) ==
    IF us = <<>> THEN prev ELSE ApplyAll(Tail(us), ApplyUpdate(Head(us), prev))

\* The conversation once the queued updates are rendered.
Conv == ApplyAll(updates, messages)

\* The loading flag once the queued update is rendered.
Flag == IF loadingUpdate = "none" THEN isLoading ELSE loadingUpdate = "true"

(* --------------------------- persistence ------------------------------ *)
Absent == [kind |-> "absent", value |-> <<>>]
Garbage == [kind |-> "garbage", value |-> <<>>]

\* A stored text that parses to something without forEach ({} or null).
NotAnArray == [kind |-> "notarray", value |-> <<>>]

\* A stored text that parses to an array whose element is not an entry: [{}].
\* The object {} has no key.
ForeignArray == [kind |-> "json", value |-> << <<>> >>]

\* The id and the role read from an object without these keys.
UndefinedId == -1
UndefinedRole == "undefined"

\* messages.filter(msg => !msg.isLoading)
NotLoading(m) == ~m.isLoading
\* Mutant of Savable: loading entries are saved too.
SavableUnfiltered(msgs) == msgs

Savable(msgs) == SelectSeq(msgs, NotLoading)

\* Mutant of RestoredMessages: the user entries whose preview handles are
\* released are dropped.
RestoredMessagesWithoutPreviews(parsedMessages) ==
    SelectSeq(parsedMessages,
              LAMBDA m : ~m.isLoading /\ ~IsSome(m.imagePreviewUrls))

\* parsedMessages.filter(msg => !msg.isLoading)
RestoredMessages(parsedMessages) == SelectSeq(parsedMessages, NotLoading)

\* The optional fields of ChatMessage other than isLoading.
OptionalFields ==
    {"text", "imagePreviewUrls", "requestPayload", "generatedImages", "error",
     "userMessageId"}

\* JSON.stringify of one entry: the keys whose value is undefined are omitted
\* (isLoading is only ever undefined or true).
JsonObject(m) ==
    [f \in (IF m.id = UndefinedId THEN {} ELSE {"id"})
            \cup (IF m.role = UndefinedRole THEN {} ELSE {"role"})
            \cup {g \in OptionalFields : IsSome(m[g])}
            \cup (IF m.isLoading THEN {"isLoading"} ELSE {}) |->
        IF f \in OptionalFields THEN Get(m[f]) ELSE m[f]]

\* JSON.stringify(savableMessages)
JsonStringify(msgs) ==
    [kind |-> "json", value |-> [i \in 1..Len(msgs) |-> JsonObject(msgs[i])]]

\* An entry of JSON.parse(savedMessages) as the code reads it: a missing key
\* reads as undefined.
ParsedMessage(o) ==
    [f \in OptionalFields \cup {"id", "role", "isLoading"} |->
        IF f \in OptionalFields
        THEN (IF f \in DOMAIN o THEN Some(o[f]) ELSE None)
        ELSE IF f = "isLoading" THEN ("isLoading" \in DOMAIN o /\ o.isLoading)
        ELSE IF f \in DOMAIN o THEN o[f]
        ELSE IF f = "id" THEN UndefinedId ELSE UndefinedRole]

\* JSON.parse(savedMessages) of a history that parses.
JsonParse(saved) == [i \in 1..Len(saved.value) |-> ParsedMessage(saved.value[i])]

\* Mutant of Persist: an empty history is stored instead of clearing the key.
PersistStoresEmpty(msgs) == JsonStringify(Savable(msgs))

\* The persist effect (useEffect on [messages]).
Persist(msgs) ==
    IF Len(Savable(msgs)) > 0 THEN JsonStringify(Savable(msgs)) ELSE Absent

RECURSIVE RevokedUrls(_)
\* parsedMessages.forEach(msg => { if (msg.role === 'user' &&
\* msg.imagePreviewUrls) msg.imagePreviewUrls.forEach(revokeObjectURL) })
RevokedUrls(parsedMessages) ==
    IF parsedMessages = <<>> THEN <<>>
    ELSE (IF /\ Head(parsedMessages).role = "user"
             /\ IsSome(Head(parsedMessages).imagePreviewUrls)
          THEN Get(Head(parsedMessages).imagePreviewUrls)
          ELSE <<>>) \o RevokedUrls(Tail(parsedMessages))

\* The restore effect: the object URLs it releases.
RevokedAtRestore(saved) ==
    IF saved.kind = "json" THEN RevokedUrls(JsonParse(saved)) ELSE <<>>

\* The restore effect: the setMessages call it makes, if any.
Restore(saved) ==
    IF saved.kind = "json"
    THEN << [kind |-> "set", value |-> RestoredMessages(JsonParse(saved))] >>
    ELSE <<>>

(* ------------------------------ rendering ----------------------------- *)
NoPendingWork == updates = <<>> /\ loadingUpdate = "none"

\* A render: the queued updates are applied in order, then the persist effect
\* runs if messages changed.
Flush(us, lu) ==
    /\ messages' = ApplyAll(us, messages)
    /\ isLoading' = IF lu = "none" THEN isLoading ELSE lu = "true"
    /\ storage' = IF us = <<>> THEN storage ELSE Persist(ApplyAll(us, messages))
    /\ updates' = <<>>
    /\ loadingUpdate' = "none"

Enqueue(us, lu) ==
    /\ updates' = updates \o us
    /\ loadingUpdate' = IF lu = "none" THEN loadingUpdate ELSE lu
    /\ UNCHANGED <<messages, isLoading, storage>>

\* State updates made in a click handler: rendered when the handler returns,
\* together with whatever was queued, unless earlier asynchronous updates are
\* still waiting for their render.
Dispatch(us, lu) ==
    IF NoPendingWork THEN Flush(us, lu) ELSE Enqueue(us, lu)

(* --------------------------- callGeminiApi ---------------------------- *)
EmptyTextError == "API Error: The model returned an empty text response."
NoImagesError == "API Error: No images were generated. The prompt may have been blocked or the response was empty."
RemoteError == "API Error: remote failure"
UnknownError == "An unknown error occurred while calling the API."
TypeError == "Cannot destructure property 'aspectRatio' of 'options' as it is undefined."

Failure(message) == [ok |-> FALSE, images |-> None, text |-> None, error |-> message]

RECURSIVE ConcatReversed(_)
\* Mutant of Concat: the images of a later call are put first.
ConcatReversed(ss) ==
    IF ss = <<>> THEN <<>> ELSE ConcatReversed(Tail(ss)) \o Head(ss)

RECURSIVE Concat(_)
Concat(ss) == IF ss = <<>> THEN <<>> ELSE Head(ss) \o Concat(Tail(ss))

\* responseType === 'image' ? variations : 1
VariationCount(params) ==
    IF params.responseType = "image" THEN params.options.variations ELSE 1

Fulfilled(r) == r.rejected = 0

\* Mutant of CallGeminiApi: the join keeps the images of the calls that were
\* fulfilled (Promise.allSettled instead of Promise.all).
CallGeminiApiPartial(params, responses, first) ==
    LET base64Images ==
            Concat([c \in 1..Len(SelectSeq(responses, Fulfilled)) |->
                        SelectSeq(responses, Fulfilled)[c].data])
    IN  IF Len(base64Images) = 0
        THEN Failure(NoImagesError)
        ELSE [ok |-> TRUE, images |-> Some(base64Images), text |-> None,
              error |-> ""]

\* responses[c] is what the c-th generateContent call did: rejected is 0
\* (fulfilled), 1 (rejected with an Error) or 2 (rejected with something else);
\* data are the inline image parts and text the text of a fulfilled call.
\* first is the call whose rejection Promise.all reports.
CallGeminiApi(params, responses, first) ==
    IF params.responseType = "undefined" THEN Failure(TypeError)
    ELSE IF \E c \in 1..Len(responses) : responses[c].rejected # 0
    THEN Failure(IF responses[first].rejected = 1 THEN RemoteError ELSE UnknownError)
    ELSE IF params.responseType = "text"
    THEN IF responses[1].text = ""
         THEN Failure(EmptyTextError)
         ELSE [ok |-> TRUE, images |-> None, text |-> Some(responses[1].text),
               error |-> ""]
    ELSE LET base64Images == Concat([c \in 1..Len(responses) |-> responses[c].data])
         IN  IF Len(base64Images) = 0
             THEN Failure(NoImagesError)
             ELSE [ok |-> TRUE, images |-> Some(base64Images), text |-> None,
                   error |-> ""]

\* What the remote API can answer to request r: per call an outcome o, -2 or
\* -1 for a rejection, otherwise the number of image parts (image mode) or
\* whether the text is non-empty (text mode).
CallOutcomes == {-2, -1, 0, 1}

RemoteResponse(r, c, o) ==
    [rejected |-> IF o = -1 THEN 1 ELSE IF o = -2 THEN 2 ELSE 0,
     data |-> IF o > 0 THEN [i \in 1..o |-> <<r, c, i>>] ELSE <<>>,
     text |-> IF o > 0 THEN "text " \o ToString(r) ELSE ""]

RemoteResponses(r, outcomes) ==
    [c \in 1..Len(outcomes) |-> RemoteResponse(r, c, outcomes[c])]

Rejecting(outcomes) == {c \in 1..Len(outcomes) : outcomes[c] < 0}

\* The number of image parts of each element of `responses`, the array that
\* Promise.all resolves to when every call is fulfilled.
PartCounts(outcomes) ==
    [c \in 1..Len(outcomes) |-> IF outcomes[c] > 0 THEN outcomes[c] ELSE 0]

\* The answers explored for the parallel calls of one request: as CallOutcomes,
\* and a call that returns two image parts.
ApiOutcomes == CallOutcomes \cup {2}

(* ------------------------------- lookups ------------------------------ *)
RECURSIVE FindById(_, _)
\* messages.find(msg => msg.id === id)
FindById(msgs, id) ==
    IF msgs = <<>> THEN None
    ELSE IF Head(msgs).id = id THEN Some(Head(msgs))
    ELSE FindById(Tail(msgs), id)

RECURSIVE FindBotByUserMessageId(_, _)
\* messages.find(msg => msg.userMessageId === userMessageId)
FindBotByUserMessageId(msgs, userMessageId) ==
    IF msgs = <<>> THEN None
    ELSE IF Head(msgs).userMessageId = Some(userMessageId) THEN Some(Head(msgs))
    ELSE FindBotByUserMessageId(Tail(msgs), userMessageId)

RECURSIVE LastPayloadById(_, _)
\* What the updater of handleEdit leaves in originalRequestPayload: the
\* requestPayload of the last entry with that id.
LastPayloadById(msgs, id) ==
    IF msgs = <<>> THEN None
    ELSE IF msgs[Len(msgs)].id = id THEN msgs[Len(msgs)].requestPayload
    ELSE LastPayloadById(SubSeq(msgs, 1, Len(msgs) - 1), id)

(* -------------------------------- state ------------------------------- *)
InFlight == {r \in 1..Len(reqs) : reqs[r].status = "inflight"}

Init ==
    /\ messages = <<>>
    /\ isLoading = FALSE
    /\ updates = <<>>
    /\ loadingUpdate = "none"
    /\ storage \in {Absent, Garbage}
    /\ reqs = <<>>
    /\ subs = <<>>
    /\ encoding = {}
    /\ clock = 0
    /\ inputPrompt = ""
    /\ mounted = FALSE
    /\ reloads = 0
    /\ edits = 0
    /\ lookupFailed = FALSE
    /\ revoked = <<>>
    /\ inputFiles = <<>>
    /\ selections = <<>>
    /\ zoom = None

\* First render of App with messages = []: the restore effect, then the persist
\* effect on the empty conversation (which removes the key), in that order.
Mount ==
    /\ ~mounted
    /\ mounted' = TRUE
    /\ updates' = Restore(storage)
    /\ revoked' = revoked \o RevokedAtRestore(storage)
    /\ storage' = Persist(messages)
    /\ UNCHANGED <<messages, isLoading, loadingUpdate, reqs, subs, encoding,
                   clock, inputPrompt, reloads, edits, lookupFailed, inputFiles,
                   selections, zoom>>

\* The page is closed or reloaded: the session's state is gone, requests and
\* file reads in progress are never answered.
Reload ==
    /\ mounted
    /\ reloads < MaxReloads
    /\ reloads' = reloads + 1
    /\ mounted' = FALSE
    /\ messages' = <<>>
    /\ isLoading' = FALSE
    /\ updates' = <<>>
    /\ loadingUpdate' = "none"
    /\ reqs' = [r \in 1..Len(reqs) |->
                    IF reqs[r].status = "inflight"
                    THEN [reqs[r] EXCEPT !.status = "lost"] ELSE reqs[r]]
    /\ subs' = [s \in 1..Len(subs) |->
                    IF subs[s] = "encoding" THEN "lost" ELSE subs[s]]
    /\ encoding' = {}
    /\ inputPrompt' = ""
    /\ inputFiles' = <<>>
    /\ zoom' = None
    /\ UNCHANGED <<storage, clock, edits, lookupFailed, revoked, selections>>

\* The scheduled render of the updates queued after an await.
Render ==
    /\ mounted
    /\ ~NoPendingWork
    /\ Flush(updates, loadingUpdate)
    /\ UNCHANGED <<reqs, subs, encoding, clock, inputPrompt, mounted, reloads, revoked,
                   edits, lookupFailed, inputFiles, selections, zoom>>

\* processRequest up to its await: the request record it adds.
NewRequest(kind, requestPayload, userMessageId, existingBotMessageId, now) ==
    [kind |-> kind, payload |-> requestPayload, userMessageId |-> userMessageId,
     botMessageId |-> BotMessageId(existingBotMessageId, now),
     status |-> "inflight", rejected |-> FALSE, partial |-> FALSE,
     counts |-> <<>>]

\* Mutant of ResponseTypeOf: one attached image already asks for text.
ResponseTypeFromOneImage(files) == IF files >= 1 THEN "text" ELSE "image"

\* const responseType = files.length > 1 ? 'text' : 'image'
ResponseTypeOf(files) == IF files > 1 THEN "text" ELSE "image"

\* handleSubmit after `await filesToImageFiles(files)`: the user entry is
\* appended and processRequest is started.
SubmitContinuation(sub, now) ==
    LET responseType == ResponseTypeOf(sub.files)
        requestPayload ==
            RequestPayload(sub.prompt, sub.files, sub.options, responseType)
        userMessage ==
            [ChatMessage(sub.userMessageId, "user") EXCEPT
                !.text = Some(sub.prompt),
                !.imagePreviewUrls = Some([i \in 1..sub.files |-> <<sub.s, i>>]),
                !.requestPayload = Some(requestPayload)]
        req == NewRequest("submit", requestPayload, sub.userMessageId, None, now)
    IN  /\ Len(reqs) < MaxRequests
        /\ reqs' = Append(reqs, req)
        /\ Enqueue(<< [kind |-> "append", entry |-> userMessage],
                      LoadingUpdate(None, req.botMessageId, sub.userMessageId) >>,
                   "true")

\* ChatInput.handleSubmit -> App.handleSubmit.  With no file the await resumes
\* in a microtask of the same task; with files it waits for the FileReaders.
HandleSubmit(now, files, variations) ==
    /\ mounted
    /\ inputPrompt # ""
    /\ ~isLoading
    /\ Len(subs) < MaxSubmits
    /\ clock' = now
    /\ inputPrompt' = ""
    /\ LET sub == [s |-> Len(subs) + 1, userMessageId |-> now,
                   prompt |-> inputPrompt, files |-> files,
                   options |-> GenerationOptions(variations)]
       IN  IF files = 0
           THEN /\ subs' = Append(subs, "appended")
                /\ SubmitContinuation(sub, now)
                /\ UNCHANGED encoding
           ELSE /\ subs' = Append(subs, "encoding")
                /\ encoding' = encoding \cup {sub}
                /\ UNCHANGED <<messages, isLoading, updates, loadingUpdate,
                               storage, reqs>>
    /\ inputFiles' = <<>>
    /\ UNCHANGED <<mounted, reloads, revoked, edits, lookupFailed, selections, zoom>>

\* The user types a prompt into the input (setPrompt).
TypePrompt(now, text) ==
    /\ mounted
    /\ inputPrompt # text
    /\ clock' = now
    /\ inputPrompt' = text
    /\ UNCHANGED <<messages, isLoading, updates, loadingUpdate, storage, reqs,
                   subs, encoding, mounted, reloads, revoked, edits, lookupFailed,
                   inputFiles, selections, zoom>>

\* Every reader.onload has fired: Promise.all resolves.
EncodeDone(now, sub) ==
    /\ mounted
    /\ sub \in encoding
    /\ clock' = now
    /\ subs' = [subs EXCEPT ![sub.s] = "appended"]
    /\ encoding' = encoding \ {sub}
    /\ SubmitContinuation(sub, now)
    /\ UNCHANGED <<inputPrompt, mounted, reloads, revoked, edits, lookupFailed,
                   inputFiles, selections, zoom>>

\* A reader.onerror has fired: Promise.all rejects, handleSubmit rejects at its
\* await and nothing after it runs.
EncodeFail(sub) ==
    /\ mounted
    /\ sub \in encoding
    /\ subs' = [subs EXCEPT ![sub.s] = "rejected"]
    /\ encoding' = encoding \ {sub}
    /\ UNCHANGED <<messages, isLoading, updates, loadingUpdate, storage, reqs,
                   clock, inputPrompt, mounted, reloads, revoked, edits, lookupFailed,
                   inputFiles, selections, zoom>>

\* callGeminiApi settles: the try or the catch branch of processRequest, then
\* its finally.
Response(r, outcomes, first) ==
    /\ mounted
    /\ r \in InFlight
    /\ LET result == CallGeminiApi(reqs[r].payload,
                                   RemoteResponses(r, outcomes), first)
       IN  /\ reqs' = [reqs EXCEPT
                        ![r].status = IF result.ok THEN "success" ELSE "error",
                        ![r].rejected = Rejecting(outcomes) # {},
                        ![r].partial = \E c \in 1..Len(outcomes) : outcomes[c] > 0,
                        ![r].counts = IF Rejecting(outcomes) = {}
                                      THEN PartCounts(outcomes) ELSE <<>>]
           /\ Enqueue(<< TerminalUpdate(reqs[r].botMessageId,
                                        reqs[r].userMessageId, result) >>,
                      "false")
    /\ UNCHANGED <<subs, encoding, clock, inputPrompt, mounted, reloads, revoked, edits,
                   lookupFailed, inputFiles, selections, zoom>>

\* The retry button of a bot entry that shows an error (BotMessage).
HandleRetry(userMessageId) ==
    /\ mounted
    /\ \E i \in 1..Len(messages) :
          /\ messages[i].role = "bot"
          /\ IsSome(messages[i].error)
          /\ messages[i].userMessageId = Some(userMessageId)
    /\ LET userMessage == FindById(messages, userMessageId)
           botMessage == FindBotByUserMessageId(messages, userMessageId)
       IN  IF /\ IsSome(userMessage)
              /\ IsSome(Get(userMessage).requestPayload)
              /\ IsSome(botMessage)
           THEN LET req == NewRequest("retry",
                                      Get(Get(userMessage).requestPayload),
                                      userMessageId, Some(Get(botMessage).id), clock)
                IN  /\ Len(reqs) < MaxRequests
                    /\ reqs' = Append(reqs, req)
                    /\ Dispatch(<< LoadingUpdate(Some(Get(botMessage).id),
                                                 req.botMessageId,
                                                 userMessageId) >>, "true")
                    /\ UNCHANGED lookupFailed
           ELSE /\ lookupFailed' = TRUE
                /\ UNCHANGED <<messages, isLoading, updates, loadingUpdate,
                               storage, reqs>>
    /\ UNCHANGED <<subs, encoding, clock, inputPrompt, mounted, reloads, revoked, edits,
                   inputFiles, selections, zoom>>

\* The edit form of a user entry (UserMessage.handleEditSubmit) -> handleEdit.
\* The updater assigns originalRequestPayload when React runs it; React runs
\* it before setMessages returns (eager) only if the component has no pending
\* work, and otherwise during the next render, after handleEdit has returned.
\* The requests of edits are bounded by MaxEdits.
HandleEdit(userMessageId, newPrompt, eager) ==
    /\ mounted
    /\ \E i \in 1..Len(messages) :
          /\ messages[i].role = "user"
          /\ messages[i].id = userMessageId
          /\ messages[i].text # Some(newPrompt)
    /\ eager => NoPendingWork
    /\ edits < MaxEdits
    /\ edits' = edits + 1
    /\ LET editUpdate ==
               [kind |-> "edit", id |-> userMessageId, prompt |-> newPrompt]
           originalRequestPayload ==
               IF eager THEN LastPayloadById(messages, userMessageId) ELSE None
           botMessage == FindBotByUserMessageId(messages, userMessageId)
       IN  IF IsSome(originalRequestPayload) /\ IsSome(botMessage)
           THEN LET req == NewRequest("edit",
                                      WithPrompt(originalRequestPayload, newPrompt),
                                      userMessageId, Some(Get(botMessage).id), clock)
                IN  /\ reqs' = Append(reqs, req)
                    /\ Dispatch(<< editUpdate,
                                   LoadingUpdate(Some(Get(botMessage).id),
                                                 req.botMessageId,
                                                 userMessageId) >>, "true")
                    /\ UNCHANGED lookupFailed
           ELSE /\ lookupFailed' = TRUE
                /\ Dispatch(<< editUpdate >>, "none")
                /\ UNCHANGED reqs
    /\ UNCHANGED <<subs, encoding, clock, inputPrompt, mounted, reloads, revoked,
                   inputFiles, selections, zoom>>

Next ==
    \/ Mount
    \/ Reload
    \/ Render
    \/ \E now \in (clock + 1)..MaxClock, p \in SubmitPrompts : TypePrompt(now, p)
    \/ \E now \in (clock + 1)..MaxClock, f \in FileCounts :
          HandleSubmit(now, f, DefaultVariations)
    \/ \E now \in clock..MaxClock, sub \in encoding : EncodeDone(now, sub)
    \/ \E sub \in encoding : EncodeFail(sub)
    \/ \E r \in 1..Len(reqs) :
          \E outcomes \in [1..VariationCount(reqs[r].payload) -> CallOutcomes] :
             \E first \in (IF Rejecting(outcomes) = {} THEN {1} ELSE Rejecting(outcomes)) :
                Response(r, outcomes, first)
    \/ \E u \in 0..MaxClock : HandleRetry(u)
    \/ \E u \in 0..MaxClock, p \in Prompts, eager \in BOOLEAN : HandleEdit(u, p, eager)

Spec == Init /\ [][Next]_vars

(***************************************************************************)
(* Startup on any stored value: also texts that this program did not write. *)
(***************************************************************************)
InitStartup ==
    /\ storage \in {Absent, Garbage, NotAnArray, ForeignArray}
    /\ messages = <<>> /\ isLoading = FALSE
    /\ updates = <<>> /\ loadingUpdate = "none"
    /\ reqs = <<>> /\ subs = <<>> /\ encoding = {}
    /\ clock = 0 /\ inputPrompt = ""
    /\ mounted = FALSE /\ reloads = 0 /\ edits = 0 /\ lookupFailed = FALSE
    /\ revoked = <<>>
    /\ inputFiles = <<>> /\ selections = <<>> /\ zoom = None

SpecStartup == InitStartup /\ [][Next]_vars

(***************************************************************************)
(* The generation client on every variation count: one submission with any *)
(* of VARIATION_OPTIONS, its parallel calls and the retries of a failure.   *)
(***************************************************************************)
NextApi ==
    \/ Mount
    \/ Render
    \/ \E p \in SubmitPrompts : TypePrompt(clock + 1, p)
    \/ \E f \in FileCounts, v \in VARIATION_OPTIONS :
          subs = <<>> /\ HandleSubmit(clock + 1, f, v)
    \/ \E sub \in encoding : EncodeDone(clock, sub)
    \/ \E r \in 1..Len(reqs) :
          \E outcomes \in [1..VariationCount(reqs[r].payload) -> ApiOutcomes] :
             \E first \in (IF Rejecting(outcomes) = {} THEN {1} ELSE Rejecting(outcomes)) :
                Response(r, outcomes, first)
    \/ \E u \in 0..MaxClock : HandleRetry(u)

SpecApi == Init /\ [][NextApi]_vars

(***************************************************************************)
(* ChatInput: the attached files.  A File is its name, media type and size *)
(* in bytes; the name is the number of the selection and the position in   *)
(* it, so that every file handed over is distinguishable.                  *)
(***************************************************************************)
\* constants.ts
MAX_FILE_SIZE_MB == 10
MAX_FILE_SIZE_BYTES == MAX_FILE_SIZE_MB * 1024 * 1024
ACCEPTED_IMAGE_TYPES == {"image/jpeg", "image/png", "image/webp"}

\* Files handed to handleFilesChange in total.
MaxSelected == 3

\* The media types and sizes of the files a user selects or drops.
FileTypes == ACCEPTED_IMAGE_TYPES \cup {"image/gif"}
FileSizes == {MAX_FILE_SIZE_BYTES, MAX_FILE_SIZE_BYTES + 1}

\* The FileLists of n files that can be the sel-th selection.
FileLists(sel, n) ==
    {[k \in 1..n |-> [name |-> <<sel, k>>, type |-> ts[k], size |-> zs[k]]] :
        ts \in [1..n -> FileTypes], zs \in [1..n -> FileSizes]}

RECURSIVE NewFilesUntilRejected(_)
\* Mutant of NewFiles: the loop stops at the first rejected file.
NewFilesUntilRejected(selectedFiles) ==
    IF selectedFiles = <<>> THEN <<>>
    ELSE IF Head(selectedFiles).type \notin ACCEPTED_IMAGE_TYPES THEN <<>>
    ELSE IF Head(selectedFiles).size > MAX_FILE_SIZE_BYTES THEN <<>>
    ELSE <<Head(selectedFiles)>> \o NewFilesUntilRejected(Tail(selectedFiles))

RECURSIVE NewFiles(_)
\* The loop of handleFilesChange: newFiles once every file was looked at.
NewFiles(selectedFiles) ==
    IF selectedFiles = <<>> THEN <<>>
    ELSE IF Head(selectedFiles).type \notin ACCEPTED_IMAGE_TYPES
         THEN NewFiles(Tail(selectedFiles))
    ELSE IF Head(selectedFiles).size > MAX_FILE_SIZE_BYTES
         THEN NewFiles(Tail(selectedFiles))
    ELSE <<Head(selectedFiles)>> \o NewFiles(Tail(selectedFiles))

RECURSIVE TotalLen(_)
TotalLen(ss) == IF ss = <<>> THEN 0 ELSE Len(Head(ss)) + TotalLen(Tail(ss))

\* The file picker's onChange or a drop: handleFilesChange(selectedFiles).
HandleFilesChange(selectedFiles) ==
    /\ mounted
    /\ TotalLen(selections) + Len(selectedFiles) <= MaxSelected
    /\ selections' = Append(selections, selectedFiles)
    /\ inputFiles' = inputFiles \o NewFiles(selectedFiles)
    /\ UNCHANGED <<messages, isLoading, updates, loadingUpdate, storage, reqs,
                   subs, encoding, clock, inputPrompt, mounted, reloads, edits,
                   lookupFailed, revoked, zoom>>

\* The remove button of a preview: removeFile(index), index counted from 1.
RemoveFile(index) ==
    /\ mounted
    /\ index \in 1..Len(inputFiles)
    /\ inputFiles' = SubSeq(inputFiles, 1, index - 1)
                        \o SubSeq(inputFiles, index + 1, Len(inputFiles))
    /\ UNCHANGED <<messages, isLoading, updates, loadingUpdate, storage, reqs,
                   subs, encoding, clock, inputPrompt, mounted, reloads, edits,
                   lookupFailed, revoked, selections, zoom>>

\* The input surface with its attachments: selections, removals and one
\* submission of what is attached.
NextInput ==
    \/ Mount
    \/ Render
    \/ \E p \in SubmitPrompts : TypePrompt(clock + 1, p)
    \/ \E n \in 1..MaxSelected :
          \E selectedFiles \in FileLists(Len(selections) + 1, n) :
             HandleFilesChange(selectedFiles)
    \/ \E index \in 1..MaxSelected : RemoveFile(index)
    \/ subs = <<>> /\ HandleSubmit(clock + 1, Len(inputFiles), DefaultVariations)
    \/ \E sub \in encoding : EncodeDone(clock, sub)

SpecInput == Init /\ [][NextInput]_vars

(***************************************************************************)
(* ImageModal: the zoom of the viewer.  zoom is kept in hundredths, and a   *)
(* wheel delta in pixels, so that deltaY * zoomFactor * 0.1 is deltaY       *)
(* hundredths; the rounding of the floating-point subtraction is not        *)
(* modelled (the clamp is applied to whatever the subtraction returns).     *)
(***************************************************************************)
\* useState(1)
InitialZoom == 100
\* Math.max(0.5, Math.min(newZoom, 5))
MinZoom == 50
MaxZoom == 500

\* e.deltaY of the wheel events: a notch of a mouse wheel in either direction
\* (100 or 120 pixels), a touchpad movement and a fast scroll.
WheelDeltas == {-1000, -120, -100, -53, 53, 100, 120, 1000}

Min(a, b) == IF a < b THEN a ELSE b
Max(a, b) == IF a > b THEN a ELSE b

\* Mutant of Clamp: only the upper end is enforced.
ClampAboveOnly(newZoom) == Min(newZoom, MaxZoom)

Clamp(newZoom) == Max(MinZoom, Min(newZoom, MaxZoom))

\* The bot entries whose images are on screen (BotMessage: onImageClick).
ShownImages ==
    {i \in 1..Len(messages) : IsSome(messages[i].generatedImages)}

ViewerFrame ==
    UNCHANGED <<messages, isLoading, updates, loadingUpdate, storage, reqs,
                subs, encoding, clock, inputPrompt, mounted, reloads, edits,
                lookupFailed, revoked, inputFiles, selections>>

\* handleImageClick: zoomedImageUrl is set and ImageModal is mounted.
OpenModal ==
    /\ mounted
    /\ ShownImages # {}
    /\ zoom = None
    /\ zoom' = Some(InitialZoom)
    /\ ViewerFrame

\* onClose (the close button, the backdrop or Escape): ImageModal is unmounted.
CloseModal ==
    /\ mounted
    /\ IsSome(zoom)
    /\ zoom' = None
    /\ ViewerFrame

\* handleWheel: setZoom(prevZoom => clamp(prevZoom - deltaY * 0.1 * 0.1))
HandleWheel(deltaY) ==
    /\ mounted
    /\ IsSome(zoom)
    /\ zoom' = Some(Clamp(Get(zoom) - deltaY))
    /\ ViewerFrame

\* One submission, its answer, and the viewer on its images.
NextViewer ==
    \/ Mount
    \/ Render
    \/ \E p \in SubmitPrompts : TypePrompt(clock + 1, p)
    \/ subs = <<>> /\ HandleSubmit(clock + 1, 0, DefaultVariations)
    \/ \E r \in 1..Len(reqs) :
          \E outcomes \in [1..VariationCount(reqs[r].payload) -> CallOutcomes] :
             \E first \in (IF Rejecting(outcomes) = {} THEN {1} ELSE Rejecting(outcomes)) :
                Response(r, outcomes, first)
    \/ OpenModal
    \/ CloseModal
    \/ \E deltaY \in WheelDeltas : HandleWheel(deltaY)

SpecViewer == Init /\ [][NextViewer]_vars

(***************************************************************************)
(*                              The claims                                 *)
(***************************************************************************)
IsBot(m) == m.role = "bot"
Settled(r) == reqs[r].status \in {"success", "error"}

\* The requests issued for the same bot entry id as request r.
SameBot(r) == {q \in 1..Len(reqs) : reqs[q].botMessageId = reqs[r].botMessageId}
Latest(r) == \A q \in SameBot(r) : q <= r

\* A handleSubmit call gets past (or fails at) its await in this step.
SubmissionSettles ==
    \/ /\ Len(subs') = Len(subs) + 1
       /\ subs'[Len(subs')] # "encoding"
    \/ \E s \in 1..Len(subs) :
          subs[s] = "encoding" /\ subs'[s] \in {"appended", "rejected"}

\* C1: every submission handed to handleSubmit grows the conversation by
\* exactly two entries, a new user entry followed by a new bot entry whose
\* userMessageId is the user entry's id, and changes nothing else.
C1_SubmitAppendsUserThenBot ==
    [][SubmissionSettles =>
          /\ Len(Conv') = Len(Conv) + 2
          /\ SubSeq(Conv', 1, Len(Conv)) = Conv
          /\ Conv'[Len(Conv) + 1].role = "user"
          /\ Conv'[Len(Conv) + 2].role = "bot"
          /\ Conv'[Len(Conv) + 2].userMessageId = Some(Conv'[Len(Conv) + 1].id)]_vars

\* C2: when the generation call of a request returns or fails, the bot entry
\* of that request is no longer loading, and whenever no generation call is
\* outstanding no entry of the conversation is loading.
C2_LoadingSettles ==
    /\ [](InFlight = {} => \A i \in 1..Len(Conv) : ~Conv[i].isLoading)
    /\ [][\A r \in InFlight :
            (mounted' /\ reqs'[r].status # "inflight") =>
                \A i \in 1..Len(Conv') :
                    Conv'[i].id = reqs[r].botMessageId => ~Conv'[i].isLoading]_vars

\* A retried request has reached its terminal state and nothing is pending.
C2_Witness ==
    /\ InFlight = {}
    /\ NoPendingWork
    /\ \E r \in 1..Len(reqs) : reqs[r].kind = "retry" /\ Settled(r)
    /\ \E i \in 1..Len(messages) : IsBot(messages[i]) /\ IsSome(messages[i].error)

\* C3: a bot entry only goes from loading to success or error and from
\* success or error back to loading; it never goes from one terminal content
\* to another without passing through loading.
C3_BotStateMachine ==
    [][(mounted /\ mounted') =>
          \A i \in 1..Len(Conv) :
             (IsBot(Conv[i]) /\ IsBot(Conv'[i]) /\ Conv'[i] # Conv[i]) =>
                 (Conv[i].isLoading # Conv'[i].isLoading)]_vars

\* C4: the loading flag is true whenever a generation request is in flight.
C4_FlagWhileInFlight == InFlight # {} => Flag

\* A step of retry or edit: a re-run is issued, a re-run settles, or handleEdit
\* runs.
RerunStep ==
    \/ edits' # edits
    \/ /\ Len(reqs') = Len(reqs) + 1
       /\ reqs'[Len(reqs')].kind # "submit"
    \/ \E r \in InFlight : reqs[r].kind # "submit" /\ reqs'[r].status # "inflight"

\* C5: retry and edit leave the number of entries unchanged and every entry,
\* the re-run bot entry included, keeps its id at its index, through the
\* loading state and the new terminal state.
C5_RerunInPlace ==
    [][(mounted /\ mounted' /\ RerunStep) =>
          /\ Len(Conv') = Len(Conv)
          /\ \A i \in 1..Len(Conv) : Conv'[i].id = Conv[i].id]_vars

\* A re-run has replaced its bot entry by a terminal state.
C5_Witness ==
    \E r \in 1..Len(reqs) :
        /\ reqs[r].kind \in {"retry", "edit"}
        /\ Settled(r)
        /\ \E i \in 1..Len(messages) :
              /\ messages[i].id = reqs[r].botMessageId
              /\ IsBot(messages[i])
              /\ ~messages[i].isLoading

\* C6: the stored chat history never holds a loading entry, and neither does
\* the conversation restored from it at startup.
C6_NoLoadingPersisted ==
    /\ \A i \in 1..Len(storage.value) : ~JsonParse(storage)[i].isLoading
    /\ \A k \in 1..Len(updates) :
          updates[k].kind = "set" =>
              \A i \in 1..Len(updates[k].value) : ~updates[k].value[i].isLoading

\* The history was saved while an entry of the conversation was loading.
C6_Witness ==
    /\ storage.kind = "json"
    /\ \E i \in 1..Len(messages) : messages[i].isLoading

\* C7: the entries of the conversation have pairwise distinct ids.
C7_DistinctIds ==
    \A i, j \in 1..Len(Conv) : Conv[i].id = Conv[j].id => i = j

\* C8: at most one bot entry of the conversation has a given userMessageId.
C8_OneBotPerUser ==
    \A i, j \in 1..Len(Conv) :
        (/\ IsBot(Conv[i]) /\ IsBot(Conv[j])
         /\ IsSome(Conv[i].userMessageId)
         /\ Conv[i].userMessageId = Conv[j].userMessageId) => i = j

BotLoading(m) ==
    m.isLoading /\ ~IsSome(m.error) /\ ~IsSome(m.generatedImages) /\ ~IsSome(m.text)
BotSuccess(m) ==
    (IsSome(m.generatedImages) \/ IsSome(m.text)) /\ ~m.isLoading /\ ~IsSome(m.error)
BotError(m) ==
    IsSome(m.error) /\ ~m.isLoading /\ ~IsSome(m.generatedImages) /\ ~IsSome(m.text)

\* C9: every bot entry is loading (nothing else set), success (images and/or
\* text, no error) or error (error only).
C9_ThreeStates ==
    \A i \in 1..Len(Conv) :
        IsBot(Conv[i]) => (BotLoading(Conv[i]) \/ BotSuccess(Conv[i]) \/ BotError(Conv[i]))

\* The image data of request r that an entry shows.
ShowsImageOf(m, r) ==
    /\ IsSome(m.generatedImages)
    /\ \E k \in 1..Len(Get(m.generatedImages)) : Get(m.generatedImages)[k][1] = r

\* C10: a request one of whose parallel calls was rejected fails as a whole:
\* no entry shows an image of it, and its bot entry is in the error state
\* with no generatedImages (until a later request for the same entry).
C10_AllOrNothing ==
    \A r \in 1..Len(reqs) :
        reqs[r].rejected =>
            /\ reqs[r].status = "error"
            /\ \A i \in 1..Len(Conv) : ~ShowsImageOf(Conv[i], r)
            /\ Latest(r) =>
                  \A i \in 1..Len(Conv) :
                      Conv[i].id = reqs[r].botMessageId =>
                          IsSome(Conv[i].error) /\ ~IsSome(Conv[i].generatedImages)

\* One of several parallel calls was rejected while another returned an image,
\* and the bot entry shows the error.
C10_Witness ==
    \E r \in 1..Len(reqs) :
        /\ reqs[r].rejected
        /\ reqs[r].partial
        /\ VariationCount(reqs[r].payload) > 1
        /\ \E i \in 1..Len(messages) :
              messages[i].id = reqs[r].botMessageId /\ IsSome(messages[i].error)

(* ------------------------------- C11 ---------------------------------- *)
RECURSIVE SumTo(_, _)
\* counts[1] + ... + counts[c]
SumTo(counts, c) == IF c = 0 THEN 0 ELSE SumTo(counts, c - 1) + counts[c]

\* The call that the k-th image of the joined result comes from.
CallOf(counts, k) ==
    CHOOSE c \in 1..Len(counts) : SumTo(counts, c - 1) < k /\ k <= SumTo(counts, c)

\* The images of request r in call order, and within a call in part order.
InCallOrder(r, counts) ==
    [k \in 1..SumTo(counts, Len(counts)) |->
        <<r, CallOf(counts, k), k - SumTo(counts, CallOf(counts, k) - 1)>>]

\* C11: the images an entry shows are those of every call of one request, in
\* call order and within a call in part order, so that their number is the
\* sum of the per-call image counts.
C11_ConcatInCallOrder ==
    \A i \in 1..Len(Conv) :
        IsSome(Conv[i].generatedImages) =>
            LET images == Get(Conv[i].generatedImages)
                r == images[1][1]
            IN  /\ Len(images) > 0
                /\ r \in 1..Len(reqs)
                /\ reqs[r].payload.responseType = "image"
                /\ Len(images) = SumTo(reqs[r].counts, Len(reqs[r].counts))
                /\ images = InCallOrder(r, reqs[r].counts)

\* Several parallel calls all returned images, one of them two parts, and the
\* bot entry shows the joined result.
C11_Witness ==
    \E r \in 1..Len(reqs) :
        /\ Len(reqs[r].counts) > 1
        /\ \A c \in 1..Len(reqs[r].counts) : reqs[r].counts[c] > 0
        /\ reqs[r].counts[1] = 2
        /\ \E i \in 1..Len(messages) : ShowsImageOf(messages[i], r)

(* ------------------------------- C12 ---------------------------------- *)
\* The positions of the user entry with that id, and of its bot entry.
UserEntries(msgs, userMessageId) ==
    {i \in 1..Len(msgs) : msgs[i].role = "user" /\ msgs[i].id = userMessageId}
BotEntries(msgs, userMessageId) ==
    {i \in 1..Len(msgs) :
        IsBot(msgs[i]) /\ msgs[i].userMessageId = Some(userMessageId)}

\* handleRetry has started a request / has logged that it found no entries.
RetryIssued == Len(reqs') > Len(reqs) /\ reqs'[Len(reqs')].kind = "retry"

\* The retry button of the bot entry of userMessageId is on screen.
RetryShown(userMessageId) ==
    \E i \in 1..Len(messages) :
        /\ IsBot(messages[i])
        /\ IsSome(messages[i].error)
        /\ messages[i].userMessageId = Some(userMessageId)

\* if (userMessage?.requestPayload && botMessage), on the rendered messages
RetryFinds(userMessageId) ==
    /\ IsSome(FindById(messages, userMessageId))
    /\ IsSome(Get(FindById(messages, userMessageId)).requestPayload)
    /\ IsSome(FindBotByUserMessageId(messages, userMessageId))

\* C12: a retry for a user entry with a stored payload and a bot entry issues
\* one request, with the payload the user entry holds, for the id of the
\* existing bot entry, which is reset to loading; the user entry is unchanged.
C12_RetrySendsStoredPayload ==
    /\ [](\A u \in 0..MaxClock :
            (/\ mounted
             /\ RetryShown(u)
             /\ \E i \in UserEntries(Conv, u) : IsSome(Conv[i].requestPayload)
             /\ BotEntries(Conv, u) # {}) => RetryFinds(u))
    /\ [][RetryIssued =>
            LET req == reqs'[Len(reqs')]
            IN  /\ Len(reqs') = Len(reqs) + 1
                /\ SubSeq(reqs', 1, Len(reqs)) = reqs
                /\ \A i \in UserEntries(Conv, req.userMessageId) :
                      /\ Conv[i].requestPayload = Some(req.payload)
                      /\ Conv'[i] = Conv[i]
                /\ UserEntries(Conv, req.userMessageId) # {}
                /\ \A i \in BotEntries(Conv, req.userMessageId) :
                      /\ Conv[i].id = req.botMessageId
                      /\ Conv'[i] = LoadingBotMessage(req.botMessageId,
                                                      req.userMessageId)
                /\ BotEntries(Conv, req.userMessageId) # {}]_vars

\* A retry was issued for a user entry whose payload had been edited before.
C12_Witness ==
    \E r \in 1..Len(reqs) :
        /\ reqs[r].kind = "retry"
        /\ edits > 0
        /\ reqs[r].payload.prompt = "b"

(* ------------------------------- C13 ---------------------------------- *)
\* handleEdit has run.
EditStep == edits' = edits + 1

\* The user entries whose text this step has edited.
Edited ==
    {i \in 1..Len(Conv) :
        /\ Conv[i].role = "user"
        /\ Conv'[i].role = "user"
        /\ Conv'[i].text # Conv[i].text}

\* C13: an edit of a user entry that has a stored payload and a bot entry
\* issues one request for the id of the existing bot entry, with the payload
\* the user entry holds after the edit, also when updates are pending.
C13_EditSendsEditedPayload ==
    [][EditStep =>
          \A i \in Edited :
              (/\ IsSome(Conv[i].requestPayload)
               /\ BotEntries(Conv, Conv[i].id) # {}) =>
                  /\ Len(reqs') = Len(reqs) + 1
                  /\ reqs'[Len(reqs')].kind = "edit"
                  /\ reqs'[Len(reqs')].userMessageId = Conv[i].id
                  /\ \A j \in BotEntries(Conv, Conv[i].id) :
                        Conv[j].id = reqs'[Len(reqs')].botMessageId
                  /\ Conv'[i].requestPayload = Some(reqs'[Len(reqs')].payload)]_vars

\* An edit has issued its request, with the edited prompt.
C13_Witness ==
    \E r \in 1..Len(reqs) :
        /\ reqs[r].kind = "edit"
        /\ reqs[r].payload.prompt = "b"
        /\ \E i \in UserEntries(Conv, reqs[r].userMessageId) :
              Conv[i].requestPayload = Some(reqs[r].payload)

(* ------------------------------- C14 ---------------------------------- *)
\* The user entries that retry and edit cannot re-run: no stored payload or
\* no bot entry.
Orphans ==
    {i \in 1..Len(Conv) :
        /\ Conv[i].role = "user"
        /\ (~IsSome(Conv[i].requestPayload) \/ BotEntries(Conv, Conv[i].id) = {})}

\* handleRetry has logged that it found no entries.
RetryAborted == edits' = edits /\ ~lookupFailed /\ lookupFailed'

\* C14: a retry or edit for a user entry without stored payload or without
\* bot entry changes no entry of the conversation, the text and payload of
\* that user entry included, and issues no request for it.
C14_MissingEntryIsNoOp ==
    [][/\ (EditStep \/ RetryIssued) =>
            /\ \A i \in Orphans : i <= Len(Conv') /\ Conv'[i] = Conv[i]
            /\ \A r \in (Len(reqs) + 1)..Len(reqs') :
                  \A i \in Orphans : reqs'[r].userMessageId # Conv[i].id
       /\ RetryAborted => (Conv' = Conv /\ reqs' = reqs)]_vars

\* An edit or retry was aborted while a user entry has no bot entry.
C14_Witness ==
    /\ lookupFailed
    /\ \E i \in 1..Len(messages) :
          /\ messages[i].role = "user"
          /\ BotEntries(messages, messages[i].id) = {}

(* ------------------------------- C15 ---------------------------------- *)
\* The positions of the entries of msgs that are not loading, in order.
RECURSIVE NonLoadingEntries(_)
NonLoadingEntries(msgs) ==
    IF msgs = <<>> THEN <<>>
    ELSE IF msgs[Len(msgs)].isLoading
         THEN NonLoadingEntries(SubSeq(msgs, 1, Len(msgs) - 1))
         ELSE Append(NonLoadingEntries(SubSeq(msgs, 1, Len(msgs) - 1)), msgs[Len(msgs)])

\* C15: once the persist effect has run for the rendered conversation, the
\* slot holds exactly its non-loading entries in order if there are any and
\* the key is absent otherwise; an empty sequence is never stored.
C15_StoredIsSettledSubsequence ==
    /\ mounted =>
          IF NonLoadingEntries(messages) # <<>>
          THEN /\ storage.kind = "json"
               /\ JsonParse(storage) = NonLoadingEntries(messages)
          ELSE storage = Absent
    /\ storage.kind = "json" => storage.value # <<>>

\* The conversation holds settled and loading entries and was saved, and the
\* key was cleared before for a conversation without settled entries.
C15_Witness ==
    /\ mounted
    /\ reloads > 0
    /\ storage.kind = "json"
    /\ Len(storage.value) >= 2
    /\ \E i \in 1..Len(messages) : messages[i].isLoading

(* ------------------------------- C16 ---------------------------------- *)
\* s is the beginning of t.
IsPrefix(s, t) == Len(s) <= Len(t) /\ SubSeq(t, 1, Len(s)) = s

\* The session starts on a stored history / the first render after that.
StartsFromHistory == ~mounted /\ mounted' /\ storage.kind = "json"
StartupSettles ==
    /\ mounted /\ mounted'
    /\ messages = <<>>
    /\ updates # <<>>
    /\ updates[1].kind = "set"
    /\ updates' = <<>>

\* C16: a session that starts on a stored history restores exactly the stored
\* entries, with their ids, order and content, the user entries with preview
\* handles included; once the startup has rendered, the slot holds that
\* sequence again (followed by what was added since).
C16_RoundTrip ==
    /\ [][StartsFromHistory =>
            /\ Len(Conv') = Len(storage.value)
            /\ \A i \in 1..Len(Conv') : JsonObject(Conv'[i]) = storage.value[i]]_vars
    /\ [][StartupSettles =>
            /\ IsPrefix(updates[1].value, messages')
            /\ storage'.kind = "json"
            /\ IsPrefix(JsonStringify(updates[1].value).value, storage'.value)]_vars

\* A history with a user entry that had attached images and a settled bot
\* entry was restored and stored again.
C16_Witness ==
    /\ reloads > 0
    /\ mounted
    /\ storage.kind = "json"
    /\ \E i \in 1..Len(messages) :
          /\ messages[i].role = "user"
          /\ IsSome(messages[i].imagePreviewUrls)
          /\ Len(Get(messages[i].imagePreviewUrls)) > 0
    /\ \E i \in 1..Len(messages) : IsBot(messages[i]) /\ IsSome(messages[i].error)
    /\ NoPendingWork

(* ------------------------------- C17 ---------------------------------- *)
\* The stored text parses as a sequence of conversation entries.
WellFormed(saved) ==
    /\ saved.kind = "json"
    /\ \A i \in 1..Len(saved.value) :
          /\ {"id", "role"} \subseteq DOMAIN saved.value[i]
          /\ saved.value[i].role \in {"user", "bot"}

Malformed(saved) == saved # Absent /\ ~WellFormed(saved)

\* C17: a session that starts on a malformed stored value removes the key and
\* starts with an empty conversation.
C17_MalformedIsDiscarded ==
    [][(~mounted /\ mounted' /\ Malformed(storage)) =>
          (storage' = Absent /\ Conv' = <<>>)]_vars

(* ------------------------------- C18 ---------------------------------- *)
\* The promise of a handleSubmit call was rejected and nobody handles it.
UnhandledRejection == \E s \in 1..Len(subs) : subs[s] = "rejected"

\* C18: no failure escapes handleSubmit or processRequest as an unhandled
\* rejection or leaves a submission without its entries, and every request
\* that fails ends as the error state of its bot entry.
C18_FailuresBecomeErrorEntries ==
    /\ [](~UnhandledRejection)
    /\ [][\A r \in InFlight :
            (mounted' /\ reqs'[r].status = "error") =>
                \E i \in 1..Len(Conv') :
                    /\ Conv'[i].id = reqs[r].botMessageId
                    /\ IsBot(Conv'[i])
                    /\ BotError(Conv'[i])]_vars

\* A generation call has failed and its bot entry shows the error.
C18_Witness ==
    \E r \in 1..Len(reqs) :
        /\ reqs[r].status = "error"
        /\ \E i \in 1..Len(messages) :
              /\ messages[i].id = reqs[r].botMessageId
              /\ BotError(messages[i])

(* ------------------------------- C19 ---------------------------------- *)
\* The object URLs that the rendered user entries use as image sources
\* (UserMessage: <img src={url}>).
Displayed ==
    UNION {{Get(messages[i].imagePreviewUrls)[k] :
                k \in 1..Len(Get(messages[i].imagePreviewUrls))} :
           i \in {j \in 1..Len(messages) :
                     /\ messages[j].role = "user"
                     /\ IsSome(messages[j].imagePreviewUrls)}}

Released == {revoked[k] : k \in 1..Len(revoked)}

\* C19: no object URL is released twice, and no released object URL is the
\* image source of a rendered user entry.
C19_NoUseAfterRelease ==
    /\ \A k, l \in 1..Len(revoked) : revoked[k] = revoked[l] => k = l
    /\ mounted => Displayed \cap Released = {}

\* The startup has released the object URLs of a stored user entry.
C19_Witness == mounted /\ revoked # <<>>

(* ------------------------------- C20 ---------------------------------- *)
\* The payload asks for text exactly when more than one image is attached.
TypeFitsImages(payload, attached) ==
    /\ payload.images = attached
    /\ payload.responseType = "text" <=> attached > 1
    /\ payload.responseType = "image" <=> attached <= 1

\* C20: the payload of a submission, as sent and as stored in its user entry,
\* asks for text if more than one image is attached and for an image
\* otherwise; no step changes the responseType stored in a user entry.
C20_ResponseTypeByImageCount ==
    /\ [](/\ \A i \in 1..Len(Conv) :
               (Conv[i].role = "user" /\ IsSome(Conv[i].requestPayload)) =>
                   TypeFitsImages(Get(Conv[i].requestPayload),
                                  Len(Get(Conv[i].imagePreviewUrls)))
          /\ \A r \in 1..Len(reqs) :
               reqs[r].kind = "submit" =>
                   TypeFitsImages(reqs[r].payload, reqs[r].payload.images))
    /\ [][(mounted /\ mounted') =>
            \A i \in 1..Len(Conv) :
                (/\ Conv[i].role = "user"
                 /\ Conv'[i].role = "user"
                 /\ IsSome(Conv[i].requestPayload)) =>
                    /\ IsSome(Conv'[i].requestPayload)
                    /\ Get(Conv'[i].requestPayload).responseType =
                          Get(Conv[i].requestPayload).responseType]_vars

\* A submission with two attached images was edited and re-run, and its
\* stored payload still asks for text.
C20_Witness ==
    \E r \in 1..Len(reqs) :
        /\ reqs[r].kind = "edit"
        /\ reqs[r].payload.images = 2
        /\ reqs[r].payload.responseType = "text"
        /\ \E i \in UserEntries(Conv, reqs[r].userMessageId) :
              Conv[i].requestPayload = Some(reqs[r].payload)

(* ------------------------------- C21 ---------------------------------- *)
\* A file of an accepted media type that is not larger than 10 MiB.
ValidFile(file) ==
    /\ file.type \in {"image/jpeg", "image/png", "image/webp"}
    /\ file.size <= 10 * 1024 * 1024

\* handleFilesChange has run.
SelectionStep == Len(selections') = Len(selections) + 1

\* C21: a selection of files appends to the attached files exactly its files
\* of type JPEG, PNG or WEBP whose size does not exceed 10 MiB, in their
\* order; the files attached before stay, and a rejected file does not keep a
\* later valid file of the selection from being attached.
C21_AcceptsExactlyValidFiles ==
    [][SelectionStep =>
          inputFiles' =
              inputFiles \o SelectSeq(selections'[Len(selections')], ValidFile)]_vars

\* With a file attached, a selection whose first file was rejected and whose
\* second file is valid was handed over, and both valid files are attached.
C21_Witness ==
    /\ Len(selections) = 2
    /\ Len(selections[2]) = 2
    /\ ~ValidFile(selections[2][1])
    /\ ValidFile(selections[2][2])
    /\ inputFiles = selections[1] \o <<selections[2][2]>>
    /\ Len(inputFiles) = 2

(* ------------------------------- C22 ---------------------------------- *)
\* C22: the zoom of a viewer starts at 1 and is within [0.5, 5.0] after any
\* sequence of wheel events (zoom is in hundredths).
C22_ZoomWithinRange ==
    /\ [](IsSome(zoom) => (Get(zoom) >= 50 /\ Get(zoom) <= 500))
    /\ [][(~IsSome(zoom) /\ IsSome(zoom')) => Get(zoom') = 100]_vars

\* Wheel events have driven the zoom down to the lower end of the range.
C22_Witness == IsSome(zoom) /\ Get(zoom) = 50

(* ------------------------------- C23 ---------------------------------- *)
\* The submissions in progress: the handleSubmit calls that wait for their
\* files, and the submitted requests whose bot entry has not reached a
\* terminal state.
PendingSubmissions ==
    Cardinality(encoding)
        + Cardinality({r \in InFlight :
                          /\ reqs[r].kind = "submit"
                          /\ \E i \in 1..Len(Conv) :
                                /\ Conv[i].id = reqs[r].botMessageId
                                /\ Conv[i].isLoading})

\* The input surface has handed a submission to handleSubmit.
SubmissionAccepted == Len(subs') = Len(subs) + 1

\* C23: at most one submission is in progress at any time, and the input
\* surface accepts no submission while one is in progress.
C23_OneSubmissionInProgress ==
    /\ [](PendingSubmissions <= 1)
    /\ [][SubmissionAccepted => PendingSubmissions = 0]_vars

\* A second submission was accepted after the first one had reached its
\* terminal state.
C23_Witness ==
    /\ Len(subs) = 2
    /\ PendingSubmissions = 1
    /\ \E r \in 1..Len(reqs) : reqs[r].kind = "submit" /\ Settled(r)

(* ------------------------------- C24 ---------------------------------- *)
\* The entry differs from the entry before at most in text and in the prompt
\* of its payload.
OnlyPromptChanged(before, after) ==
    /\ IsSome(after.text)
    /\ IsSome(before.requestPayload) = IsSome(after.requestPayload)
    /\ after = [before EXCEPT
                  !.text = after.text,
                  !.requestPayload =
                      IF IsSome(before.requestPayload)
                      THEN Some([Get(before.requestPayload) EXCEPT
                                    !.prompt = Get(after.requestPayload).prompt])
                      ELSE None]

\* What an edit of the user entry with that id may change.
EditFrame(userMessageId) ==
    /\ Len(Conv') = Len(Conv)
    /\ \A i \in 1..Len(Conv) :
          Conv[i].role = "user" =>
              IF Conv[i].id = userMessageId
              THEN OnlyPromptChanged(Conv[i], Conv'[i])
              ELSE Conv'[i] = Conv[i]

\* C24: an edit changes, in the user entry it is for, only text and the
\* prompt of the payload (id, position, imagePreviewUrls and the payload's
\* images, options and responseType stay), and changes no other user entry.
C24_EditChangesOnlyPrompt ==
    [][\A u \in 0..MaxClock, p \in Prompts, eager \in BOOLEAN :
          HandleEdit(u, p, eager) => EditFrame(u)]_vars

\* A user entry with two attached images was edited: its text and prompt are
\* the new prompt and its images and responseType are as submitted.
C24_Witness ==
    /\ edits > 0
    /\ \E i \in 1..Len(messages) :
          /\ messages[i].role = "user"
          /\ messages[i].text = Some("b")
          /\ IsSome(messages[i].requestPayload)
          /\ Get(messages[i].requestPayload).prompt = "b"
          /\ Get(messages[i].requestPayload).images = 2
          /\ Get(messages[i].requestPayload).responseType = "text"
          /\ Len(Get(messages[i].imagePreviewUrls)) = 2

(* ------------------------------- C25 ---------------------------------- *)
\* The requests issued for a bot entry and its user entry, and the last one.
RequestsFor(m) ==
    {r \in 1..Len(reqs) :
        /\ reqs[r].botMessageId = m.id
        /\ Some(reqs[r].userMessageId) = m.userMessageId}
LatestFor(m) == CHOOSE r \in RequestsFor(m) : \A q \in RequestsFor(m) : q <= r

\* The entry is the terminal state that the answer to request r produces.
ShowsOutcomeOf(m, r) ==
    IF reqs[r].status = "success"
    THEN /\ BotSuccess(m)
         /\ IsSome(m.generatedImages) =>
               \A k \in 1..Len(Get(m.generatedImages)) :
                   Get(m.generatedImages)[k][1] = r
         /\ IsSome(m.text) => Get(m.text) = "text " \o ToString(r)
    ELSE BotError(m)

\* C25: whenever no request is in flight, a bot entry shows the outcome of
\* the request issued last for it, and that request carried the payload its
\* user entry holds now.
C25_LatestRequestWins ==
    (mounted /\ InFlight = {}) =>
        \A i \in 1..Len(Conv) :
            (IsBot(Conv[i]) /\ RequestsFor(Conv[i]) # {}
                /\ Settled(LatestFor(Conv[i]))) =>
                /\ ShowsOutcomeOf(Conv[i], LatestFor(Conv[i]))
                /\ \A j \in UserEntries(Conv, reqs[LatestFor(Conv[i])].userMessageId) :
                      Conv[j].requestPayload =
                          Some(reqs[LatestFor(Conv[i])].payload)

\* Two requests for the same bot entry were in flight together and both have
\* settled, the one issued first last.
C25_Witness ==
    /\ mounted
    /\ InFlight = {}
    /\ Len(reqs) = 2
    /\ reqs[2].kind = "edit"
    /\ reqs[1].botMessageId = reqs[2].botMessageId
    /\ reqs[1].status = "success"
    /\ reqs[2].status = "error"
    /\ \E i \in 1..Len(Conv) :
          Conv[i].id = reqs[1].botMessageId /\ ShowsImageOf(Conv[i], 1)

(* ------------------------------- C26 ---------------------------------- *)
\* C26: whenever no request is in flight, every user entry of the
\* conversation has a bot entry whose userMessageId is its id.
C26_EveryUserEntryHasBot ==
    (mounted /\ InFlight = {}) =>
        \A i \in 1..Len(Conv) :
            Conv[i].role = "user" => BotEntries(Conv, Conv[i].id) # {}

\* The page was reloaded while a request was pending, and the session that
\* follows has restored the user entry of that request.
C26_Witness ==
    /\ mounted
    /\ reloads > 0
    /\ InFlight = {}
    /\ NoPendingWork
    /\ \E r \in 1..Len(reqs) :
          /\ reqs[r].status = "lost"
          /\ UserEntries(messages, reqs[r].userMessageId) # {}

====
